---- MODULE Spec2Model ----
(***************************************************************************)
(* Model of the Tic-Tac-Toe game area client: the TicTacToeAreaController  *)
(* (frontend/src/classes/interactable/TicTacToeAreaController.ts), the     *)
(* part of its GameAreaController base class that it calls, and the        *)
(* TicTacToeArea and TicTacToeBoard views and the Leaderboard component.   *)
(*                                                                         *)
(* A PlayerController is identified with its id; `undefined` is None.      *)
(***************************************************************************)
EXTENDS Integers, Sequences, FiniteSets, TLC

VARIABLES
    model,        \* this._model.game: the last applied snapshot's game
    occupants,    \* this.occupants: ids of the players in the area
    players,      \* this._players: ids of the players of the game
    instanceID,   \* this._instanceID
    last,         \* what the last call did: events emitted, errors, commands, toasts
    updates,      \* number of updateFrom calls counted by SpecMove
    results,      \* the results prop of the Leaderboard component
    rows,         \* the table rows the Leaderboard rendered for results
    isLoading,    \* TicTacToeArea: state of the Join New Game button
    joinPending,  \* TicTacToeArea: number of joinGame calls awaiting their reply
    boardMounted, \* a TicTacToeBoard component is mounted on the controller
    boardView,    \* TicTacToeBoard: state board, the cells displayed
    ourTurnView,  \* TicTacToeBoard: state ourTurn; the cells are disabled when false
    mountedOn,    \* the controller each view component's effect is subscribed to
    effectRun,    \* number of runs of each component's useEffect: names its closures
    listeners     \* the listener arrays of each controller, per event name

vars == <<model, occupants, players, instanceID, last, updates,
          results, rows, isLoading, joinPending,
          boardMounted, boardView, ourTurnView, mountedOn, effectRun, listeners>>

controllerVars == <<model, occupants, players, instanceID>>
leaderboardVars == <<results, rows>>
joinVars == <<isLoading, joinPending>>
boardViewVars == <<boardMounted, boardView, ourTurnView>>
mountVars == <<mountedOn, effectRun, listeners>>

-----------------------------------------------------------------------------
(* Bounds of the snapshots the town controller delivers *)

MaxMoves == 2      \* longest move list in a snapshot
MaxUpdates == 1    \* updateFrom calls before the makeMove calls of SpecMove
MaxBoardMoves == 4  \* longest move list of a game played move by move in SpecBoard
MaxResults == 3     \* longest results list given to the Leaderboard
MaxEffectRuns == 4  \* runs of one component's useEffect in SpecMount

(* Program constants *)
GridSize == 3

None == "none"
Our == "our"                       \* townController.ourPlayer.id
PlayerIds == {"our", "other"}      \* the players in the town
GameIds == {"g1"}
Pieces == {"X", "O"}
Positions == 0 .. (GridSize - 1)
Statuses == {"WAITING_TO_START", "IN_PROGRESS", "OVER"}

PLAYER_NOT_IN_GAME_ERROR == "Player is not in game"
NO_GAME_IN_PROGRESS_ERROR == "No game in progress"
TransportErrors == {"transport error"}
ClickCells == {<<0, 0>>, <<1, 2>>}     \* the cells clicked: arguments of makeMove

-----------------------------------------------------------------------------
(* Snapshots *)

NoGame ==
    [present |-> FALSE, id |-> None, status |-> "WAITING_TO_START", x |-> None,
     o |-> None, moves |-> <<>>, winner |-> None, players |-> {}]

\* the moves of the snapshots: X in the top-left cell, O in the centre
SnapshotMoves ==
    {[gamePiece |-> "X", row |-> 0, col |-> 0], [gamePiece |-> "O", row |-> 1, col |-> 1]}

MoveLists == UNION {[1 .. n -> SnapshotMoves] : n \in 0 .. MaxMoves}

\* Snapshots as the town produces them: X is assigned before O and the two roles
\* are held by different players; the players of the game are among the role
\* holders (a player who left keeps the role in the state); only a game that is
\* over names a winner, one of the role holders
Games ==
    {g \in [present : {TRUE}, id : GameIds, status : Statuses,
            x : PlayerIds \cup {None}, o : PlayerIds \cup {None},
            moves : MoveLists, winner : PlayerIds \cup {None},
            players : SUBSET PlayerIds] :
        /\ g.o # None => (g.x # None /\ g.x # g.o)
        /\ g.players \subseteq ({g.x, g.o} \ {None})
        /\ g.winner # None => (g.status = "OVER" /\ g.winner \in {g.x, g.o})}

Snapshots == Games \cup {NoGame}

Rosters == {PlayerIds}

-----------------------------------------------------------------------------
(* Accessors of TicTacToeAreaController *)

EmptyBoard == [r \in Positions |-> [c \in Positions |-> None]]

RECURSIVE ApplyMoves(_, _, _)
ApplyMoves(ret, moves, i) ==
    IF i > Len(moves) THEN ret
    ELSE ApplyMoves([ret EXCEPT ![moves[i].row][moves[i].col] = moves[i].gamePiece],
                    moves, i + 1)

\* rows and columns exchanged
boardTransposed(game) ==
    IF game.present
    THEN ApplyMoves(EmptyBoard,
                    [i \in 1 .. Len(game.moves) |->
                        [gamePiece |-> game.moves[i].gamePiece,
                         row |-> game.moves[i].col, col |-> game.moves[i].row]], 1)
    ELSE EmptyBoard

board(game) ==
    IF game.present THEN ApplyMoves(EmptyBoard, game.moves, 1) ELSE EmptyBoard

observers(occ, plys) == occ \ plys

\* the loops "for (const observer of this.observers) if (observer.id === id) return observer"
FindObserver(id, obs) == IF id \in obs THEN id ELSE None

x(game, obs) ==
    IF ~game.present \/ game.x = None THEN None ELSE FindObserver(game.x, obs)

o(game, obs) ==
    IF ~game.present \/ game.o = None THEN None ELSE FindObserver(game.o, obs)

moveCount(game) == IF ~game.present THEN 0 ELSE Len(game.moves)

winner(game, obs) ==
    IF ~game.present \/ game.status # "OVER" THEN None
    ELSE FindObserver(game.winner, obs)

gamePieceToBePlayed(game) ==
    IF Len(game.moves) = 0 THEN "X"
    ELSE IF game.moves[Len(game.moves)].gamePiece = "X" THEN "O" ELSE "X"

\* the status check left out
whoseTurnAnyStatus(game, obs) ==
    IF ~game.present THEN None
    ELSE IF gamePieceToBePlayed(game) = "X" THEN FindObserver(game.x, obs)
    ELSE FindObserver(game.o, obs)

whoseTurn(game, obs) ==
    IF ~game.present \/ game.status # "IN_PROGRESS" THEN None
    ELSE IF gamePieceToBePlayed(game) = "X" THEN FindObserver(game.x, obs)
    ELSE FindObserver(game.o, obs)

isOurTurn(game, obs) ==
    LET playerWhosTurnItIs == whoseTurn(game, obs)
    IN  playerWhosTurnItIs # None /\ Our = playerWhosTurnItIs

isPlayer(game) == game.present /\ Our \in game.players

status(game) == IF ~game.present THEN "WAITING_TO_START" ELSE game.status

-----------------------------------------------------------------------------
(* GameAreaController._updateFrom (base class): stores the new model, *)
(* emits gameUpdated once and gameEnd when the status becomes OVER    *)

SuperUpdateEvents(oldGame, newGame) ==
    <<"gameUpdated">> \o
    (IF status(oldGame) # "OVER" /\ status(newGame) = "OVER"
        THEN <<"gameEnd">> ELSE <<>>)

(* TicTacToeAreaController._updateFrom after the call of super._updateFrom *)

NoOwnUpdate ==
    [events |-> <<>>, boardPayload |-> EmptyBoard, turnPayload |-> FALSE, error |-> None]

OwnUpdateStaleBoard(oldGame, newGame) ==
    IF ~newGame.present THEN NoOwnUpdate
    ELSE LET newMoves == newGame.moves
             oldMoves == IF oldGame.present THEN oldGame.moves ELSE <<>>
         IN  IF Len(newMoves) # Len(oldMoves)
             THEN IF Len(newMoves) = 0
                  THEN [NoOwnUpdate EXCEPT !.events = <<"boardChanged">>,
                                           !.boardPayload = board(oldGame),
                                           !.error = "TypeError"]
                  ELSE [NoOwnUpdate EXCEPT
                           !.events = <<"boardChanged", "turnChanged">>,
                           !.boardPayload = board(oldGame),
                           !.turnPayload =
                               \/ newMoves[Len(newMoves)].gamePiece = "X" /\ Our = newGame.o
                               \/ newMoves[Len(newMoves)].gamePiece = "O" /\ Our = newGame.x]
             ELSE NoOwnUpdate

OwnUpdateAlways(oldGame, newGame) ==
    IF ~newGame.present THEN NoOwnUpdate
    ELSE LET newMoves == newGame.moves
         IN  IF Len(newMoves) = 0
             THEN [NoOwnUpdate EXCEPT !.events = <<"boardChanged">>,
                                      !.boardPayload = board(newGame),
                                      !.error = "TypeError"]
             ELSE [NoOwnUpdate EXCEPT
                      !.events = <<"boardChanged", "turnChanged">>,
                      !.boardPayload = board(newGame),
                      !.turnPayload =
                          \/ newMoves[Len(newMoves)].gamePiece = "X" /\ Our = newGame.o
                          \/ newMoves[Len(newMoves)].gamePiece = "O" /\ Our = newGame.x]

\* oldGame is the copy { ...this._model.game }: its moves are [] when there was no game.
\* newMoves[newMoves.length - 1] is undefined for an empty list, and reading its
\* gamePiece raises a TypeError after boardChanged was emitted.
OwnUpdate(oldGame, newGame) ==
    IF ~newGame.present THEN NoOwnUpdate
    ELSE LET newMoves == newGame.moves
             oldMoves == IF oldGame.present THEN oldGame.moves ELSE <<>>
         IN  IF Len(newMoves) # Len(oldMoves)
             THEN IF Len(newMoves) = 0
                  THEN [NoOwnUpdate EXCEPT !.events = <<"boardChanged">>,
                                           !.boardPayload = board(newGame),
                                           !.error = "TypeError"]
                  ELSE [NoOwnUpdate EXCEPT
                           !.events = <<"boardChanged", "turnChanged">>,
                           !.boardPayload = board(newGame),
                           !.turnPayload =
                               \/ newMoves[Len(newMoves)].gamePiece = "X" /\ Our = newGame.o
                               \/ newMoves[Len(newMoves)].gamePiece = "O" /\ Our = newGame.x]
             ELSE NoOwnUpdate

-----------------------------------------------------------------------------
(* What a listener reads from the controller while an event is emitted: updateFrom *)
(* stores the occupants, super._updateFrom stores the players and the model, and   *)
(* every emit of the call comes after these stores                                 *)

\* boardChanged emitted before super._updateFrom has stored the model
StoredAtEmitBoardEarly(event, before, after) ==
    IF event = "boardChanged" THEN [after EXCEPT !.model = before.model] ELSE after

StoredAtEmit(event, before, after) == after

-----------------------------------------------------------------------------
(* TicTacToeArea view: the gameEnd listener displayEndGameToast *)

EndGameToast(game, obs) ==
    IF winner(game, obs) = None THEN "Game ended in a tie"
    ELSE IF winner(game, obs) = Our THEN "You won!"
    ELSE "You lost :("

RECURSIVE AreaToastsOnEveryUpdate(_, _, _)
AreaToastsOnEveryUpdate(events, game, obs) ==
    IF events = <<>> THEN <<>>
    ELSE <<EndGameToast(game, obs)>> \o AreaToastsOnEveryUpdate(Tail(events), game, obs)

\* the toasts the mounted view shows for the events of one call
RECURSIVE AreaToasts(_, _, _)
AreaToasts(events, game, obs) ==
    IF events = <<>> THEN <<>>
    ELSE (IF Head(events) = "gameEnd" THEN <<EndGameToast(game, obs)>> ELSE <<>>)
         \o AreaToasts(Tail(events), game, obs)

-----------------------------------------------------------------------------
(* TicTacToeBoard view: the listeners updater (boardChanged) and changeTurn *)
(* (turnChanged, gameUpdated), run in the order the events are emitted     *)

RECURSIVE BoardListeners(_, _, _, _)
BoardListeners(events, view, game, obs) ==
    IF events = <<>> THEN view
    ELSE LET after ==
                 IF Head(events) = "boardChanged"
                 THEN [board |-> board(game), ourTurn |-> isOurTurn(game, obs)]
                 ELSE IF Head(events) \in {"turnChanged", "gameUpdated"}
                 THEN [view EXCEPT !.ourTurn = isOurTurn(game, obs)]
                 ELSE view
         IN  BoardListeners(Tail(events), after, game, obs)

\* the rejection handler of a cell's onClick, e => showBadMoveToast, returns the
\* toast function without calling it
BadMoveToasts(error) == <<>>

-----------------------------------------------------------------------------
(* TicTacToeAreaController.makeMove *)

MoveCommand(game, obs, iid, row, col) ==
    LET turn == whoseTurn(game, obs)
        gamePiece == IF turn = game.x THEN "X" ELSE "O"
    IN  [type |-> "GameMove",
         gameID |-> IF iid = None THEN "" ELSE iid,
         move |-> [gamePiece |-> gamePiece, row |-> row, col |-> col]]

\* an earlier draft of the guard: a missing game passes it
MakeMoveResultNoGamePasses(game, obs, iid, row, col, transport) ==
    IF game.present /\ game.status # "IN_PROGRESS"
    THEN [error |-> NO_GAME_IN_PROGRESS_ERROR, sent |-> <<>>]
    ELSE [error |-> transport, sent |-> <<MoveCommand(game, obs, iid, row, col)>>]

\* a rejected command is sent again
MakeMoveResultRetry(game, obs, iid, row, col, transport) ==
    IF ~game.present \/ game.status # "IN_PROGRESS"
    THEN [error |-> NO_GAME_IN_PROGRESS_ERROR, sent |-> <<>>]
    ELSE [error |-> transport,
          sent |-> IF transport = None
                   THEN <<MoveCommand(game, obs, iid, row, col)>>
                   ELSE <<MoveCommand(game, obs, iid, row, col),
                          MoveCommand(game, obs, iid, row, col)>>]

\* transport is the outcome of sendInteractableCommand: None when it resolves,
\* the error it rejects with otherwise
MakeMoveResult(game, obs, iid, row, col, transport) ==
    IF ~game.present \/ game.status # "IN_PROGRESS"
    THEN [error |-> NO_GAME_IN_PROGRESS_ERROR, sent |-> <<>>]
    ELSE [error |-> transport, sent |-> <<MoveCommand(game, obs, iid, row, col)>>]

-----------------------------------------------------------------------------
(* Leaderboard component: a game result is the list Object.entries(result.scores) *)
(* of its two <<player name, score>> entries; playerResults is the Map as the     *)
(* list of its [name, tup] entries in insertion order                              *)

PlayerNames == {"A", "B", "C"}
Scores == {0, 1}

GameResults ==
    {<<<<n1, s1>>, <<n2, s2>>>> : n1 \in PlayerNames, n2 \in PlayerNames,
                                  s1 \in Scores, s2 \in Scores} \
    {r \in (PlayerNames \X Scores) \X (PlayerNames \X Scores) : r[1][1] = r[2][1]}

\* equal scores are not told apart from a loss of player one
getGameEndResultNoTie(scores) ==
    IF scores[1][2] # 0 /\ scores[1][2] # scores[2][2] THEN "WIN" ELSE "LOSS"

getGameEndResult(scores) ==
    IF scores[1][2] # scores[2][2]
    THEN (IF scores[1][2] # 0 THEN "WIN" ELSE "LOSS")
    ELSE "TIE"

MapHas(playerResults, name) ==
    \E i \in 1 .. Len(playerResults) : playerResults[i].name = name

MapGet(playerResults, name) ==
    playerResults[CHOOSE i \in 1 .. Len(playerResults) : playerResults[i].name = name].tup

MapSet(playerResults, name, tup) ==
    IF MapHas(playerResults, name)
    THEN [i \in 1 .. Len(playerResults) |->
             IF playerResults[i].name = name THEN [name |-> name, tup |-> tup]
             ELSE playerResults[i]]
    ELSE Append(playerResults, [name |-> name, tup |-> tup])

\* player two is credited like player one
calculatePlayerRecordTupleAsPlayerOne(playerResults, playerUsername, gameResult, isPlayerTwo) ==
    LET tup == IF MapHas(playerResults, playerUsername)
               THEN MapGet(playerResults, playerUsername) ELSE <<0, 0, 0>>
    IN  IF gameResult = "WIN" THEN [tup EXCEPT ![1] = @ + 1]
        ELSE IF gameResult = "LOSS" THEN [tup EXCEPT ![2] = @ + 1]
        ELSE [tup EXCEPT ![3] = @ + 1]

calculatePlayerRecordTuple(playerResults, playerUsername, gameResult, isPlayerTwo) ==
    LET tup == IF MapHas(playerResults, playerUsername)
               THEN MapGet(playerResults, playerUsername) ELSE <<0, 0, 0>>
    IN  IF gameResult = "WIN"
        THEN (IF ~isPlayerTwo THEN [tup EXCEPT ![1] = @ + 1]
              ELSE [tup EXCEPT ![2] = @ + 1])
        ELSE IF gameResult = "LOSS"
        THEN (IF ~isPlayerTwo THEN [tup EXCEPT ![2] = @ + 1]
              ELSE [tup EXCEPT ![1] = @ + 1])
        ELSE [tup EXCEPT ![3] = @ + 1]

\* the body of results.map(result => ...)
RecordResult(playerResults, result) ==
    LET scores == result
        gameEndResult == getGameEndResult(scores)
        player1Username == scores[1][1]
        player2Username == scores[2][1]
        tup1 == calculatePlayerRecordTuple(playerResults, player1Username,
                                           gameEndResult, FALSE)
        tup2 == calculatePlayerRecordTuple(playerResults, player2Username,
                                           gameEndResult, TRUE)
    IN  MapSet(MapSet(playerResults, player1Username, tup1), player2Username, tup2)

RECURSIVE RecordResults(_, _, _)
RecordResults(playerResults, res, i) ==
    IF i > Len(res) THEN playerResults
    ELSE RecordResults(RecordResult(playerResults, res[i]), res, i + 1)

\* one entry put in its place of an array sorted by (r1, r2) => r2[1][0] - r1[1][0]:
\* behind every entry with at least as many wins (the sort is stable)
InsertByWins(sorted, entry) ==
    LET before == SelectSeq(sorted, LAMBDA e : e.tup[1] >= entry.tup[1])
        after == SelectSeq(sorted, LAMBDA e : e.tup[1] < entry.tup[1])
    IN  before \o <<entry>> \o after

RECURSIVE SortFrom(_, _, _)
SortFrom(sorted, arr, i) ==
    IF i > Len(arr) THEN sorted
    ELSE SortFrom(InsertByWins(sorted, arr[i]), arr, i + 1)

\* the array left in the Map's insertion order
InsertionOrder(playerResultsArray) == playerResultsArray

SortByWins(playerResultsArray) == SortFrom(<<>>, playerResultsArray, 1)

\* the rows of the rendered table: Player, Wins, Losses, Ties
Leaderboard(res) ==
    LET playerResultsArray == SortByWins(RecordResults(<<>>, res, 1))
    IN  [i \in 1 .. Len(playerResultsArray) |->
            [player |-> playerResultsArray[i].name,
             wins |-> playerResultsArray[i].tup[1],
             losses |-> playerResultsArray[i].tup[2],
             ties |-> playerResultsArray[i].tup[3]]]

-----------------------------------------------------------------------------
(* The useEffect hooks of the view components: the effect adds the listeners it *)
(* defines to the controller, its cleanup removes the same functions. A listener *)
(* function is named by its component and the effect run that defined it         *)

Components == {"TicTacToeArea", "TicTacToeBoard"}
Controllers == {"c1", "c2"}
EventNames == {"gameUpdated", "gameEnd", "boardChanged", "turnChanged"}

AddedEvents(comp) ==
    IF comp = "TicTacToeArea" THEN <<"gameUpdated", "gameEnd">>
    ELSE <<"boardChanged", "turnChanged", "gameUpdated">>

RemovedEvents(comp) ==
    IF comp = "TicTacToeArea" THEN <<"gameUpdated", "gameEnd">>
    ELSE <<"boardChanged", "turnChanged", "gameUpdated">>

\* EventEmitter.removeListener: takes one occurrence of the function out of the array
RemoveOne(array, fn) ==
    IF \E i \in 1 .. Len(array) : array[i] = fn
    THEN LET last_i == CHOOSE i \in 1 .. Len(array) :
                           /\ array[i] = fn
                           /\ \A j \in (i + 1) .. Len(array) : array[j] # fn
         IN  [k \in 1 .. (Len(array) - 1) |-> IF k < last_i THEN array[k] ELSE array[k + 1]]
    ELSE array

RECURSIVE AddListeners(_, _, _, _)
AddListeners(ofController, events, fn, i) ==
    IF i > Len(events) THEN ofController
    ELSE AddListeners([ofController EXCEPT ![events[i]] = Append(@, fn)], events, fn, i + 1)

RECURSIVE RemoveListeners(_, _, _, _)
RemoveListeners(ofController, events, fn, i) ==
    IF i > Len(events) THEN ofController
    ELSE RemoveListeners([ofController EXCEPT ![events[i]] = RemoveOne(@, fn)],
                         events, fn, i + 1)

\* the cleanup leaves the gameUpdated listener behind
CleanupKeepsGameUpdated(ls, comp) ==
    IF mountedOn[comp] = None THEN ls
    ELSE [ls EXCEPT ![mountedOn[comp]] =
             RemoveListeners(@, SelectSeq(RemovedEvents(comp), LAMBDA e : e # "gameUpdated"),
                             <<comp, effectRun[comp]>>, 1)]

\* the function returned by the effect, run before the next effect and on unmount
Cleanup(ls, comp) ==
    IF mountedOn[comp] = None THEN ls
    ELSE [ls EXCEPT ![mountedOn[comp]] =
             RemoveListeners(@, RemovedEvents(comp), <<comp, effectRun[comp]>>, 1)]

\* the body of the effect, run for controller c as effect run number run
Effect(ls, comp, c, run) ==
    [ls EXCEPT ![c] = AddListeners(@, AddedEvents(comp), <<comp, run>>, 1)]

-----------------------------------------------------------------------------
(* State machine *)

NoCall ==
    [op |-> "init", events |-> <<>>, boardPayload |-> EmptyBoard, turnPayload |-> FALSE,
     error |-> None, sent |-> <<>>, toasts |-> <<>>, sameSnapshot |-> FALSE,
     args |-> <<>>, transport |-> "not called", observed |-> <<>>]

Init ==
    /\ model = NoGame
    /\ occupants = {}
    /\ players = {}
    /\ instanceID = None
    /\ last = NoCall
    /\ updates = 0
    /\ results = <<>>
    /\ rows = Leaderboard(<<>>)
    /\ isLoading = FALSE
    /\ joinPending = 0
    /\ boardMounted = FALSE
    /\ boardView = EmptyBoard
    /\ ourTurnView = FALSE
    /\ mountedOn = [comp \in Components |-> None]
    /\ effectRun = [comp \in Components |-> 0]
    /\ listeners = [c \in Controllers |-> [e \in EventNames |-> <<>>]]

\* InteractableAreaController.updateFrom(newModel, occupants): stores the occupants,
\* then runs _updateFrom; the listeners of the mounted TicTacToeArea view and of
\* a mounted TicTacToeBoard run while the events are emitted
UpdateFrom(newGame, newOccupants) ==
    LET oldGame == model
        own == OwnUpdate(oldGame, newGame)
        superEvents == SuperUpdateEvents(oldGame, newGame)
        newObservers == observers(newOccupants, newGame.players)
        view == BoardListeners(superEvents \o own.events,
                               [board |-> boardView, ourTurn |-> ourTurnView],
                               newGame, newObservers)
    IN  /\ occupants' = newOccupants
        /\ players' = newGame.players
        /\ model' = newGame
        /\ instanceID' = newGame.id
        /\ last' = [op |-> "updateFrom",
                    events |-> superEvents \o own.events,
                    boardPayload |-> own.boardPayload,
                    turnPayload |-> own.turnPayload,
                    error |-> own.error,
                    sent |-> <<>>,
                    toasts |-> AreaToasts(superEvents, newGame, newObservers),
                    sameSnapshot |-> (last.op = "updateFrom" /\ newGame = oldGame),
                    args |-> <<>>,
                    transport |-> "not called",
                    observed |->
                        [i \in 1 .. Len(superEvents \o own.events) |->
                            StoredAtEmit((superEvents \o own.events)[i],
                                [model |-> oldGame, occupants |-> occupants,
                                 players |-> players],
                                [model |-> newGame, occupants |-> newOccupants,
                                 players |-> newGame.players])]]
        /\ boardView' = (IF boardMounted THEN view.board ELSE boardView)
        /\ ourTurnView' = (IF boardMounted THEN view.ourTurn ELSE ourTurnView)
        /\ UNCHANGED <<leaderboardVars, joinVars, boardMounted, mountVars>>

ApplySnapshot ==
    /\ \E newGame \in Snapshots, newOccupants \in Rosters : UpdateFrom(newGame, newOccupants)
    /\ UNCHANGED updates

FirstSnapshots ==
    /\ updates < MaxUpdates
    /\ \E newGame \in Snapshots, newOccupants \in Rosters : UpdateFrom(newGame, newOccupants)
    /\ updates' = updates + 1

\* the move is put on the stored board before the server's snapshot arrives
MakeMoveAppliesMove ==
    \E cell \in ClickCells, transport \in {None} \cup TransportErrors :
        LET result == MakeMoveResult(model, observers(occupants, players), instanceID,
                                     cell[1], cell[2], transport)
        IN  /\ last' = [NoCall EXCEPT
                            !.op = "makeMove", !.error = result.error,
                            !.sent = result.sent, !.args = cell,
                            !.transport = IF result.sent = <<>> THEN "not called"
                                          ELSE transport]
            /\ model' = (IF result.sent = <<>> THEN model
                         ELSE [model EXCEPT !.moves = Append(@, result.sent[1].move)])
            /\ UNCHANGED <<mountVars, occupants, players, instanceID, updates,
                           leaderboardVars, joinVars, boardViewVars>>

MakeMove ==
    \E cell \in ClickCells, transport \in {None} \cup TransportErrors :
        LET result == MakeMoveResult(model, observers(occupants, players), instanceID,
                                     cell[1], cell[2], transport)
        IN  /\ last' = [NoCall EXCEPT
                            !.op = "makeMove", !.error = result.error,
                            !.sent = result.sent, !.args = cell,
                            !.transport = IF result.sent = <<>> THEN "not called"
                                          ELSE transport]
            /\ UNCHANGED <<mountVars, controllerVars, updates, leaderboardVars, joinVars,
                           boardViewVars>>

Next == ApplySnapshot

Spec == Init /\ [][Next]_vars

\* a game as the server plays it: created with no moves, then one move at a time,
\* each on a cell no earlier move took
FreshGame ==
    [present |-> TRUE, id |-> "g1", status |-> "IN_PROGRESS", x |-> Our,
     o |-> "other", moves |-> <<>>, winner |-> None, players |-> {}]

CellTaken(moves, row, col) ==
    \E i \in 1 .. Len(moves) : moves[i].row = row /\ moves[i].col = col

BoardStart ==
    /\ ~model.present
    /\ UpdateFrom(FreshGame, PlayerIds)
    /\ UNCHANGED updates

BoardAppend ==
    /\ model.present
    /\ Len(model.moves) < MaxBoardMoves
    /\ \E piece \in Pieces, row \in Positions, col \in Positions :
            /\ ~CellTaken(model.moves, row, col)
            /\ UpdateFrom([model EXCEPT !.moves = Append(@, [gamePiece |-> piece,
                                                            row |-> row, col |-> col])],
                          PlayerIds)
    /\ UNCHANGED updates

BoardClear ==
    /\ model.present
    /\ UpdateFrom(NoGame, PlayerIds)
    /\ UNCHANGED updates

NextBoard == BoardStart \/ BoardAppend \/ BoardClear

SpecBoard == Init /\ [][NextBoard]_vars

\* the Leaderboard is rendered with one more result in its results prop
RenderLeaderboard ==
    /\ Len(results) < MaxResults
    /\ \E result \in GameResults :
            /\ results' = Append(results, result)
            /\ rows' = Leaderboard(results')
    /\ UNCHANGED <<mountVars, controllerVars, last, updates, joinVars, boardViewVars>>

NextLeaderboard == RenderLeaderboard

SpecLeaderboard == Init /\ [][NextLeaderboard]_vars

\* GameAreaController.joinGame (base class): forwards a join command and fails
\* as the transport reports
JoinGameResult(transport) ==
    [error |-> transport, sent |-> <<[type |-> "JoinGame"]>>]

\* TicTacToeArea renders the Join New Game button from gameAreaValues, which the
\* gameUpdated listener copies from the controller on every update
JoinButtonDisplayed == status(model) # "IN_PROGRESS" /\ ~isPlayer(model)

JoinSnapshots == {g \in Snapshots : g.moves = <<>>}

JoinAreaUpdate ==
    /\ \E newGame \in JoinSnapshots, newOccupants \in Rosters :
            UpdateFrom(newGame, newOccupants)
    /\ UNCHANGED updates

\* the button takes clicks while it is loading
ClickJoinWhileLoading ==
    /\ JoinButtonDisplayed
    /\ joinPending < 2
    /\ isLoading' = TRUE
    /\ joinPending' = joinPending + 1
    /\ last' = [NoCall EXCEPT !.op = "joinGame", !.sent = JoinGameResult(None).sent]
    /\ UNCHANGED <<mountVars, controllerVars, updates, leaderboardVars, boardViewVars>>

\* onClick of the button; a disabled button takes no click
ClickJoin ==
    /\ JoinButtonDisplayed
    /\ ~isLoading
    /\ isLoading' = TRUE
    /\ joinPending' = joinPending + 1
    /\ last' = [NoCall EXCEPT !.op = "joinGame", !.sent = JoinGameResult(None).sent]
    /\ UNCHANGED <<mountVars, controllerVars, updates, leaderboardVars, boardViewVars>>

\* .then(() => setIsLoading(false))
JoinResolves ==
    /\ joinPending > 0
    /\ JoinGameResult(None).error = None
    /\ joinPending' = joinPending - 1
    /\ isLoading' = FALSE
    /\ last' = [NoCall EXCEPT !.op = "joinResolved"]
    /\ UNCHANGED <<mountVars, controllerVars, updates, leaderboardVars, boardViewVars>>

\* .catch(e => showErrorJoinToast(e.message))
JoinRejects ==
    /\ joinPending > 0
    /\ \E transport \in TransportErrors :
            LET e == JoinGameResult(transport).error
            IN  last' = [NoCall EXCEPT !.op = "joinRejected", !.error = e,
                                       !.toasts = <<"Error: " \o e>>]
    /\ joinPending' = joinPending - 1
    /\ UNCHANGED <<mountVars, controllerVars, updates, leaderboardVars, isLoading, boardViewVars>>

NextJoin == JoinAreaUpdate \/ ClickJoin \/ JoinResolves \/ JoinRejects

SpecJoin == Init /\ [][NextJoin]_vars

\* TicTacToeBoard is mounted: useState(gameAreaController.board) and
\* useState(gameAreaController.isOurTurn)
BoardMount ==
    /\ ~boardMounted
    /\ boardMounted' = TRUE
    /\ boardView' = board(model)
    /\ ourTurnView' = isOurTurn(model, observers(occupants, players))
    /\ last' = [NoCall EXCEPT !.op = "mountBoard"]
    /\ UNCHANGED <<mountVars, controllerVars, updates, leaderboardVars, joinVars>>

\* snapshots whose role holders are observers, so that a turn can be the local
\* viewer's and the cells can be enabled
ViewSnapshots == {g \in Snapshots : g.players = {}}

BoardViewUpdate ==
    /\ \E newGame \in ViewSnapshots, newOccupants \in Rosters :
            UpdateFrom(newGame, newOccupants)
    /\ UNCHANGED updates

\* onClick of a cell; a disabled cell takes no click
ClickCell ==
    /\ boardMounted
    /\ ourTurnView
    /\ \E cell \in ClickCells, transport \in {None} \cup TransportErrors :
        LET result == MakeMoveResult(model, observers(occupants, players), instanceID,
                                     cell[1], cell[2], transport)
        IN  last' = [NoCall EXCEPT
                        !.op = "clickCell", !.error = result.error,
                        !.sent = result.sent, !.args = cell,
                        !.toasts = IF result.error = None THEN <<>>
                                   ELSE BadMoveToasts(result.error),
                        !.transport = IF result.sent = <<>> THEN "not called"
                                      ELSE transport]
    /\ UNCHANGED <<mountVars, controllerVars, updates, leaderboardVars, joinVars, boardViewVars>>

NextBoardView == BoardMount \/ BoardViewUpdate \/ ClickCell

SpecBoardView == Init /\ [][NextBoardView]_vars

\* a component is mounted, or rendered again with another controller or with
\* another value of a dependency of its effect, or unmounted: React runs the
\* cleanup of the previous effect, if any, and then the effect
RunEffect ==
    \E comp \in Components, c \in Controllers :
        /\ effectRun[comp] < MaxEffectRuns
        /\ effectRun' = [effectRun EXCEPT ![comp] = @ + 1]
        /\ listeners' = Effect(Cleanup(listeners, comp), comp, c, effectRun[comp] + 1)
        /\ mountedOn' = [mountedOn EXCEPT ![comp] = c]
        /\ UNCHANGED <<controllerVars, last, updates, leaderboardVars, joinVars,
                       boardViewVars>>

Unmount ==
    \E comp \in Components :
        /\ mountedOn[comp] # None
        /\ listeners' = Cleanup(listeners, comp)
        /\ mountedOn' = [mountedOn EXCEPT ![comp] = None]
        /\ UNCHANGED <<controllerVars, last, updates, leaderboardVars, joinVars,
                       boardViewVars, effectRun>>

NextMount == RunEffect \/ Unmount

SpecMount == Init /\ [][NextMount]_vars

NextMove == FirstSnapshots \/ MakeMove

SpecMove == Init /\ [][NextMove]_vars

-----------------------------------------------------------------------------
(* Properties *)

Count(call, name) == Cardinality({i \in 1 .. Len(call.events) : call.events[i] = name})

Emitted(call, name) == Count(call, name) > 0

Observers == observers(occupants, players)

\* C1: a call of updateFrom emits boardChanged if and only if the board projected
\* from the new snapshot differs from the board projected from the stored one
C1_BoardChangedIffBoardDiffers ==
    [][last'.op = "updateFrom" =>
          (Emitted(last', "boardChanged") <=> board(model') # board(model))]_vars

\* C2: a call of updateFrom does not emit turnChanged when isOurTurn is the same
\* for the new snapshot as for the stored one
C2_NoTurnChangedWhenTurnUnchanged ==
    [][(last'.op = "updateFrom" /\ isOurTurn(model', Observers') = isOurTurn(model, Observers))
          => ~Emitted(last', "turnChanged")]_vars

\* C3: a call of updateFrom emits turnChanged whenever isOurTurn for the new
\* snapshot differs from isOurTurn for the stored one
C3_TurnChangedWhenTurnDiffers ==
    [][(last'.op = "updateFrom" /\ isOurTurn(model', Observers') # isOurTurn(model, Observers))
          => Emitted(last', "turnChanged")]_vars

\* C4: the payload of an emitted turnChanged is what isOurTurn returns for the
\* newly stored snapshot
C4_TurnPayloadIsOurTurn ==
    (last.op = "updateFrom" /\ Emitted(last, "turnChanged"))
        => last.turnPayload = isOurTurn(model, Observers)

\* C5: the payload of an emitted boardChanged is the board of the newly stored snapshot
C5_BoardPayloadIsNewBoard ==
    (last.op = "updateFrom" /\ Emitted(last, "boardChanged"))
        => last.boardPayload = board(model)

C5_Witness ==
    /\ last.op = "updateFrom"
    /\ Emitted(last, "boardChanged")
    /\ last.boardPayload = board(model)
    /\ last.boardPayload # EmptyBoard

\* C6: every call of updateFrom emits gameUpdated exactly once, and a call that
\* applies the stored snapshot again emits neither boardChanged nor turnChanged
C6_SameSnapshotTwice ==
    [][last'.op = "updateFrom" =>
          /\ Count(last', "gameUpdated") = 1
          /\ (model' = model =>
                (~Emitted(last', "boardChanged") /\ ~Emitted(last', "turnChanged")))]_vars

C6_Witness ==
    /\ last.op = "updateFrom"
    /\ last.sameSnapshot
    /\ model.present
    /\ Len(model.moves) > 0
    /\ last.events = <<"gameUpdated">>

\* C7: a call of updateFrom emits gameEnd exactly once, and the view shows exactly
\* one end-of-game toast, when the status changes from a value other than OVER to
\* OVER; it emits no gameEnd and shows no toast in any other call
C7_GameEndOncePerTransition ==
    [][last'.op = "updateFrom" =>
          LET ending == status(model) # "OVER" /\ status(model') = "OVER"
              n == IF ending THEN 1 ELSE 0
          IN  Count(last', "gameEnd") = n /\ Len(last'.toasts) = n]_vars

C7_Witness ==
    /\ last.op = "updateFrom"
    /\ status(model) = "OVER"
    /\ Count(last, "gameEnd") = 1
    /\ Len(last.toasts) = 1

\* C8: the toast shown when the game ends is the tie toast exactly when the OVER
\* snapshot has no winner id, the won toast exactly when the winner id is the
\* local viewer's id, and the lost toast otherwise
C8_OutcomeFollowsWinnerId ==
    (last.op = "updateFrom" /\ Emitted(last, "gameEnd"))
        => last.toasts =
              <<IF model.winner = None THEN "Game ended in a tie"
                ELSE IF model.winner = Our THEN "You won!"
                ELSE "You lost :(">>

C10_NoMoveByNonPlayer ==
    (last.op = "makeMove" /\ model.present /\ model.status = "IN_PROGRESS"
        /\ Our # model.x /\ Our # model.o)
        => (last.error = PLAYER_NOT_IN_GAME_ERROR /\ last.sent = <<>>)

\* C11: the command of a makeMove that passes the local checks is a GameMove with
\* the given row and col, the id of the stored game and the local viewer's own role
C11_CommandCarriesOwnRole ==
    (last.op = "makeMove" /\ last.sent # <<>> /\ Our \in {model.x, model.o})
        => /\ Len(last.sent) = 1
           /\ last.sent[1].type = "GameMove"
           /\ last.sent[1].gameID = model.id
           /\ last.sent[1].move.row = last.args[1]
           /\ last.sent[1].move.col = last.args[2]
           /\ last.sent[1].move.gamePiece = (IF Our = model.x THEN "X" ELSE "O")

\* C12: makeMove hands its command to the transport at most once, and exactly once
\* when it passes the local checks; it fails with the transport's own error when
\* the transport rejects, and succeeds when the transport resolves
C12_TransportErrorVerbatim ==
    last.op = "makeMove"
        => /\ Len(last.sent) <= 1
           /\ (model.present /\ model.status = "IN_PROGRESS") => Len(last.sent) = 1
           /\ last.transport # "not called" => last.error = last.transport

C12_Witness ==
    /\ last.op = "makeMove"
    /\ last.transport \in TransportErrors
    /\ last.error = last.transport
    /\ Len(last.sent) = 1

NonEmptyCells(b) ==
    {cell \in Positions \X Positions : b[cell[1]][cell[2]] # None}

\* C13: for a move list on pairwise distinct cells the board has as many non-empty
\* cells as there are moves, each move's cell holds that move's piece, and the
\* board of no game is entirely empty
C13_BoardHoldsMoves ==
    LET b == board(model)
    IN  /\ ~model.present => b = EmptyBoard
        /\ model.present =>
             /\ Cardinality(NonEmptyCells(b)) = Len(model.moves)
             /\ \A i \in 1 .. Len(model.moves) :
                    b[model.moves[i].row][model.moves[i].col] = model.moves[i].gamePiece

C13_Witness ==
    /\ model.present
    /\ Len(model.moves) = 3
    /\ board(model)[0][2] = "O"
    /\ board(model)[2][0] = "X"
    /\ board(model)[1][1] = "X"

\* C14: while the game is IN_PROGRESS whoseTurn is the occupant assigned to X for
\* an even move count and the occupant assigned to O for an odd one, whatever
\* pieces the moves carry (stated for role holders found among the observers)
C14_TurnByParity ==
    (model.present /\ model.status = "IN_PROGRESS"
        /\ {model.x, model.o} \ {None} \subseteq Observers)
        => whoseTurn(model, Observers)
               = (IF Len(model.moves) % 2 = 0 THEN model.x ELSE model.o)

\* C15: with no game or a status other than IN_PROGRESS, whoseTurn is undefined
\* and isOurTurn is false, whatever the move count and the role assignment
C15_NoTurnOutsideProgress ==
    (~model.present \/ model.status # "IN_PROGRESS")
        => /\ whoseTurn(model, Observers) = None
           /\ ~isOurTurn(model, Observers)

C15_Witness ==
    /\ model.present
    /\ model.status = "OVER"
    /\ Len(model.moves) = 2
    /\ model.x = Our
    /\ x(model, Observers) = Our
    /\ whoseTurn(model, Observers) = None
    /\ ~isOurTurn(model, Observers)

\* the id assigned to the role of the piece to be played
NextMoverId(game) == IF gamePieceToBePlayed(game) = "X" THEN game.x ELSE game.o

\* C16: isOurTurn is true exactly when the game is IN_PROGRESS and the id assigned
\* to the role that moves next is the local viewer's id, whether the local viewer
\* is listed among the game's players or among the observers
C16_OurTurnIffNextMoverIsLocal ==
    isOurTurn(model, Observers)
        <=> (model.present /\ model.status = "IN_PROGRESS" /\ Our \in occupants
                /\ NextMoverId(model) = Our)

\* C17: the x (resp. o) accessor returns the occupant whose id is the snapshot's
\* X (resp. O) id whenever that id is set and in the roster, game player or
\* observer, and undefined when there is no game or the role is unassigned
C17_RoleAccessorsResolveRoster ==
    /\ (model.present /\ model.x \in occupants) => x(model, Observers) = model.x
    /\ (model.present /\ model.o \in occupants) => o(model, Observers) = model.o
    /\ (~model.present \/ model.x = None) => x(model, Observers) = None
    /\ (~model.present \/ model.o = None) => o(model, Observers) = None

\* C18: every result credits a win to the participant with score 1 and a loss to
\* the other, or a tie to both when the scores are equal, and the row of a name
\* holds the sums of its credits over all results
C18_RowsSumCredits ==
    LET GamesOf(name) == {i \in 1 .. Len(results) :
                            \E k \in 1 .. 2 : results[i][k][1] = name}
        Own(i, name) == IF results[i][1][1] = name THEN results[i][1][2]
                        ELSE results[i][2][2]
        Other(i, name) == IF results[i][1][1] = name THEN results[i][2][2]
                          ELSE results[i][1][2]
        Wins(name) == Cardinality({i \in GamesOf(name) :
                            Own(i, name) = 1 /\ Other(i, name) # 1})
        Losses(name) == Cardinality({i \in GamesOf(name) :
                            Other(i, name) = 1 /\ Own(i, name) # 1})
        Ties(name) == Cardinality({i \in GamesOf(name) : Own(i, name) = Other(i, name)})
    IN  \A name \in PlayerNames :
            GamesOf(name) # {} =>
                \E i \in 1 .. Len(rows) :
                    /\ rows[i].player = name
                    /\ rows[i].wins = Wins(name)
                    /\ rows[i].losses = Losses(name)
                    /\ rows[i].ties = Ties(name)

C18_Witness ==
    /\ results = << <<(<<"A", 1>>), (<<"B", 0>>)>>, <<(<<"A", 0>>), (<<"B", 1>>)>> >>
    /\ Len(rows) = 2
    /\ \A i \in 1 .. 2 : rows[i].wins = 1 /\ rows[i].losses = 1 /\ rows[i].ties = 0

\* C19: the leaderboard has exactly one row per distinct player name of the
\* results, none for no results, and its rows are in non-increasing order of wins
C19_OneRowPerNameSortedByWins ==
    LET names == {results[i][k][1] : i \in 1 .. Len(results), k \in 1 .. 2}
    IN  /\ Len(rows) = Cardinality(names)
        /\ {rows[i].player : i \in 1 .. Len(rows)} = names
        /\ \A i \in 1 .. Len(rows), j \in 1 .. Len(rows) :
                i < j => rows[i].wins >= rows[j].wins

C19_Witness ==
    /\ results = << <<(<<"B", 0>>), (<<"A", 1>>)>>, <<(<<"C", 1>>), (<<"A", 0>>)>>,
                    <<(<<"C", 1>>), (<<"B", 0>>)>> >>
    /\ Len(rows) = 3
    /\ rows[1].player = "C" /\ rows[1].wins = 2
    /\ rows[2].player = "A" /\ rows[2].wins = 1
    /\ rows[3].player = "B" /\ rows[3].wins = 0

\* C20: the Join New Game button is loading while joinGame is pending and is
\* enabled again once the call has completed, resolved or rejected
C20_ButtonReenabledAfterJoin ==
    /\ joinPending > 0 => isLoading
    /\ joinPending = 0 => ~isLoading

\* C21: at most one joinGame request of the button is in flight: no click starts
\* a request while an earlier one is still pending
C21_OneJoinInFlight == joinPending <= 1

C21_Witness ==
    /\ JoinButtonDisplayed
    /\ joinPending = 1
    /\ isLoading
    /\ last.op = "updateFrom"

\* C22: the Join New Game button is displayed whenever the game is OVER, also for
\* a local viewer still listed among the players of the game that ended, and is
\* not displayed while the game is IN_PROGRESS
C22_JoinButtonShownWhenNotInProgress ==
    /\ status(model) = "OVER" => JoinButtonDisplayed
    /\ status(model) = "IN_PROGRESS" => ~JoinButtonDisplayed

\* C23: every click on a cell whose makeMove call fails displays an error toast
C23_FailedMoveShowsToast ==
    (last.op = "clickCell" /\ last.error # None) => last.toasts # <<>>

\* C25: while a TicTacToeBoard is mounted, after every applySnapshot call that
\* completes the board displayed is the controller's board and the cells are
\* disabled exactly when isOurTurn is false
C25_BoardViewFollowsController ==
    (boardMounted /\ last.op = "updateFrom" /\ last.error = None)
        => /\ boardView = board(model)
           /\ ourTurnView = isOurTurn(model, Observers)

\* C24: every controller holds, per event name a component subscribes to, exactly
\* one listener of a component mounted on it and none of a component that is
\* unmounted or subscribed to another controller
C24_ListenersMatchMounts ==
    \A c \in Controllers, e \in EventNames, comp \in Components :
        LET held == Cardinality({i \in 1 .. Len(listeners[c][e]) :
                                    listeners[c][e][i][1] = comp})
            subscribed == \E i \in 1 .. Len(AddedEvents(comp)) : AddedEvents(comp)[i] = e
        IN  held = (IF mountedOn[comp] = c /\ subscribed THEN 1 ELSE 0)

C24_Witness ==
    /\ mountedOn["TicTacToeBoard"] = "c2"
    /\ effectRun["TicTacToeBoard"] >= 2
    /\ mountedOn["TicTacToeArea"] = None
    /\ effectRun["TicTacToeArea"] >= 1
    /\ listeners["c1"]["gameUpdated"] = <<>>
    /\ listeners["c2"]["gameUpdated"] = <<(<<"TicTacToeBoard", effectRun["TicTacToeBoard"]>>)>>

C27_TurnDefinedInProgress ==
    (model.present /\ model.status = "IN_PROGRESS") => whoseTurn(model, Observers) # None

\* C28: updateFrom raises no error, whatever the stored and the new snapshot are
C28_UpdateNeverThrows ==
    last.op = "updateFrom" => last.error = None

\* C29: makeMove changes the value of no accessor and emits no event, whether it
\* fails locally, resolves or is rejected
C29_MakeMoveChangesNothing ==
    [][last'.op = "makeMove" =>
        /\ last'.events = <<>>
        /\ board(model') = board(model)
        /\ moveCount(model') = moveCount(model)
        /\ status(model') = status(model)
        /\ whoseTurn(model', observers(occupants', players'))
                = whoseTurn(model, observers(occupants, players))
        /\ isOurTurn(model', observers(occupants', players'))
                = isOurTurn(model, observers(occupants, players))
        /\ winner(model', observers(occupants', players'))
                = winner(model, observers(occupants, players))
        /\ x(model', observers(occupants', players'))
                = x(model, observers(occupants, players))
        /\ o(model', observers(occupants', players'))
                = o(model, observers(occupants, players))]_vars

C29_Witness ==
    /\ last.op = "makeMove"
    /\ last.args = <<1, 2>>
    /\ Len(last.sent) = 1
    /\ last.sent[1].move.row = 1 /\ last.sent[1].move.col = 2
    /\ moveCount(model) = 1
    /\ board(model)[1][2] = None

\* C30: each row's wins + losses + ties is the number of results its player
\* appears in, the wins of all rows and the losses of all rows both sum to the
\* number of decisive results, and the ties of all rows sum to twice the number
\* of tied results
C30_TotalsConserved ==
    LET Appears(name) == Cardinality({i \in 1 .. Len(results) :
                            \E k \in 1 .. 2 : results[i][k][1] = name})
        Decisive == Cardinality({i \in 1 .. Len(results) :
                            results[i][1][2] # results[i][2][2]})
        Tied == Len(results) - Decisive
        SumTo[field \in {"wins", "losses", "ties"}, n \in 0 .. Len(rows)] ==
            IF n = 0 THEN 0 ELSE SumTo[field, n - 1] + rows[n][field]
    IN  /\ \A i \in 1 .. Len(rows) :
                rows[i].wins + rows[i].losses + rows[i].ties = Appears(rows[i].player)
        /\ SumTo["wins", Len(rows)] = Decisive
        /\ SumTo["losses", Len(rows)] = Decisive
        /\ SumTo["ties", Len(rows)] = 2 * Tied

C30_Witness ==
    /\ Len(results) = 3
    /\ results[1][1][2] = results[1][2][2]
    /\ results[2][1][2] # results[2][2][2]
    /\ results[3][1][2] # results[3][2][2]
    /\ Len(rows) = 3
    /\ \E i \in 1 .. 3 : rows[i].wins = 1 /\ rows[i].losses = 1 /\ rows[i].ties = 1

====
